---- MODULE Spec2Model ----
(***************************************************************************)
(* cgroups v1 manager of youki: mount resolution, path resolution,         *)
(* Manager::new, Manager::apply and Manager::remove                        *)
(* (src/src/cgroups/v1/manager.rs, src/src/cgroups/v1/util.rs).            *)
(*                                                                         *)
(* A path is a record [abs, comps]: whether it starts at the root, and its *)
(* components as std::path::Path::components() yields them (".." is kept). *)
(* The empty path "" is [abs |-> FALSE, comps |-> <<>>], "/" is            *)
(* [abs |-> TRUE, comps |-> <<>>].                                         *)
(***************************************************************************)
EXTENDS Integers, Sequences, FiniteSets, TLC

VARIABLES
    mounts,       \* /proc/self/mountinfo: sequence of [fs_type, mount_point]
    cgroups,      \* /proc/self/cgroup: sequence of [controllers, pathname]
    cgroup_path,  \* the cgroup path the caller requests from Manager::new
    lookup,       \* last mount lookup made (SpecMount)
    manager,      \* outcome of Manager::new: status, subsystems, error
    order,        \* iteration order of the subsystems HashMap
    dirs,         \* cgroup directories that exist on disk
    procs,        \* membership: set of <<directory, pid>>
    pstate,       \* state of each pid: unborn, running or dead
    ap,           \* position and result of the current/last apply call
    calls,        \* controllers dispatched by the current/last apply call
    rm,           \* position and result of the current/last remove call
    reads,        \* controllers whose membership file remove has read
    sigs,         \* signals remove has sent: [ctl, pid, ok]
    dels          \* controllers whose directory remove has tried to delete

vars == <<mounts, cgroups, cgroup_path, lookup, manager, order, dirs, procs,
          pstate, ap, calls, rm, reads, sigs, dels>>

-----------------------------------------------------------------------------
(* Bounds of the model *)

MaxMounts == 2
MaxPathLen == 2
MaxSeed == 1
MaxPids == 2

-----------------------------------------------------------------------------
(* Controllers *)

CONTROLLERS ==
    <<"cpu", "cpuset", "devices", "hugetlb", "memory", "pids", "blkio",
      "net_prio", "net_cls">>

NumControllers == Len(CONTROLLERS)

Subsystems == {CONTROLLERS[i] : i \in 1..NumControllers}

IndexOf(subsystem) == CHOOSE i \in 1..NumControllers : CONTROLLERS[i] = subsystem

-----------------------------------------------------------------------------
(* Paths *)

AbsPath(comps) == [abs |-> TRUE, comps |-> comps]

RelPath(comps) == [abs |-> FALSE, comps |-> comps]

\* Path::ends_with: child (a relative path given by its components) is a
\* suffix of p, component by component.
EndsWith(p, child) ==
    /\ Len(child) <= Len(p.comps)
    /\ SubSeq(p.comps, Len(p.comps) - Len(child) + 1, Len(p.comps)) = child

\* to_string_lossy().is_empty()
IsEmptyPath(p) == ~p.abs /\ p.comps = <<>>

\* Path::is_absolute
IsAbsolute(p) == p.abs

\* PathBuf::join: an absolute argument replaces the base, a relative one is
\* appended component by component; nothing is normalised.
Join(base, p) ==
    IF p.abs THEN p ELSE [abs |-> base.abs, comps |-> base.comps \o p.comps]

\* Lexical resolution of ".." segments (".." at the root stays at the root).
RECURSIVE ResolveComps(_, _)
ResolveComps(done, rest) ==
    IF rest = <<>> THEN done
    ELSE IF Head(rest) = ".."
         THEN ResolveComps(IF done = <<>> THEN <<>>
                           ELSE SubSeq(done, 1, Len(done) - 1), Tail(rest))
         ELSE ResolveComps(Append(done, Head(rest)), Tail(rest))

Resolved(p) == [abs |-> p.abs, comps |-> ResolveComps(<<>>, p.comps)]

\* p, with its ".." segments resolved, is base or lies below base.
Within(p, base) ==
    LET r == Resolved(p).comps
        b == Resolved(base).comps
    IN  /\ p.abs = base.abs
        /\ Len(b) <= Len(r)
        /\ SubSeq(r, 1, Len(b)) = b

-----------------------------------------------------------------------------
(* Mount resolution *)

\* Iterator::find, given the indices of the elements the closure accepts:
\* the first of them, 0 (None) when there is none.
FirstIndex(hits) ==
    IF hits = {} THEN 0
    ELSE CHOOSE i \in hits : \A j \in hits : i <= j

\* The closure of manager.rs:55-76 without the co-mount suffixes.
ManagerMountFilterPlain(m, subsystem) ==
    EndsWith(m.mount_point, <<subsystem>>)

\* The closure given to find() in Manager::get_subsystem_path.
ManagerMountFilter(m, subsystem) ==
    IF m.fs_type = "cgroup" /\ subsystem = "net_cls"
    THEN \/ EndsWith(m.mount_point, <<"net_cls,net_prio">>)
         \/ EndsWith(m.mount_point, <<"net_prio,net_cls">>)
         \/ EndsWith(m.mount_point, <<"net_cls">>)
    ELSE IF m.fs_type = "cgroup" /\ subsystem = "net_prio"
    THEN \/ EndsWith(m.mount_point, <<"net_cls,net_prio">>)
         \/ EndsWith(m.mount_point, <<"net_prio,net_cls">>)
         \/ EndsWith(m.mount_point, <<"net_prio">>)
    ELSE IF m.fs_type = "cgroup" /\ subsystem = "cpu"
    THEN \/ EndsWith(m.mount_point, <<"cpu,cpuacct">>)
         \/ EndsWith(m.mount_point, <<"cpu">>)
    ELSE EndsWith(m.mount_point, <<subsystem>>)

\* The closure given to find() in get_subsystem_mount_points.
UtilMountFilter(m, subsystem) ==
    IF m.fs_type = "cgroup" /\ subsystem = "net_cls"
    THEN \/ EndsWith(m.mount_point, <<"net_cls,net_prio">>)
         \/ EndsWith(m.mount_point, <<"net_prio,net_cls">>)
         \/ EndsWith(m.mount_point, <<"net_cls">>)
    ELSE IF m.fs_type = "cgroup" /\ subsystem = "net_prio"
    THEN \/ EndsWith(m.mount_point, <<"net_cls,net_prio">>)
         \/ EndsWith(m.mount_point, <<"net_prio,net_cls">>)
         \/ EndsWith(m.mount_point, <<"net_prio">>)
    ELSE IF m.fs_type = "cgroup" /\ subsystem = "cpu"
    THEN \/ EndsWith(m.mount_point, <<"cpu,cpuacct">>)
         \/ EndsWith(m.mount_point, <<"cpu">>)
    ELSE EndsWith(m.mount_point, <<subsystem>>)

\* Process::myself()?.mountinfo()?.into_iter().find(..) of
\* Manager::get_subsystem_path: the index of the record found, 0 for None.
FindMount(subsystem) ==
    FirstIndex({i \in 1..Len(mounts) : ManagerMountFilter(mounts[i], subsystem)})

\* get_subsystem_mount_points: Ok(mount point) or Err.
get_subsystem_mount_points(subsystem) ==
    LET i == FirstIndex({k \in 1..Len(mounts) :
                            UtilMountFilter(mounts[k], subsystem)})
    IN  IF i = 0
        THEN [tag |-> "Err", err |-> "could not find mountpoint", index |-> 0]
        ELSE [tag |-> "Ok", path |-> mounts[i].mount_point, index |-> i]

\* list_subsystem_mount_points: the controllers that resolve, with their
\* mount points; the ones that do not are left out.
list_subsystem_mount_points ==
    LET found == {s \in Subsystems : get_subsystem_mount_points(s).tag = "Ok"}
    IN  [s \in found |-> get_subsystem_mount_points(s).path]

-----------------------------------------------------------------------------
(* Membership and path resolution *)

\* Process::myself()?.cgroups()?.into_iter().find(..): the index of the first
\* entry whose controller set holds subsystem, 0 for None.
FindCgroup(subsystem) ==
    FirstIndex({i \in 1..Len(cgroups) : subsystem \in cgroups[i].controllers})

\* PathBufExt::join_absolute_path (crate::utils): p is taken relative to base;
\* a path that would resolve outside base is rejected with PathEscape.
JoinAbsolutePath(base, p) ==
    LET joined == [abs |-> base.abs, comps |-> base.comps \o p.comps]
    IN  IF Within(joined, base)
        THEN [tag |-> "Ok", path |-> joined]
        ELSE [tag |-> "Err", err |-> "PathEscape"]

\* get_subsystem_path with the second and third case taken for each other.
GetSubsystemPathSwapped(path, subsystem) ==
    LET mi == FindMount(subsystem)
        ci == FindCgroup(subsystem)
    IN  IF mi = 0 THEN [tag |-> "Panic", at |-> "mount"]
        ELSE IF ci = 0 THEN [tag |-> "Panic", at |-> "cgroup"]
        ELSE IF IsAbsolute(path) \/ IsEmptyPath(path)
        THEN JoinAbsolutePath(mounts[mi].mount_point, path)
        ELSE JoinAbsolutePath(mounts[mi].mount_point,
                 [abs |-> TRUE,
                  comps |-> cgroups[ci].pathname.comps \o path.comps])

\* Manager::get_subsystem_path. The two unwrap() calls abort the process
\* ("Panic") when find() gave None.
get_subsystem_path(path, subsystem) ==
    LET mi == FindMount(subsystem)
        ci == FindCgroup(subsystem)
    IN  IF mi = 0 THEN [tag |-> "Panic", at |-> "mount"]
        ELSE IF ci = 0 THEN [tag |-> "Panic", at |-> "cgroup"]
        ELSE IF IsEmptyPath(path)
        THEN JoinAbsolutePath(mounts[mi].mount_point, cgroups[ci].pathname)
        ELSE IF IsAbsolute(path)
        THEN JoinAbsolutePath(mounts[mi].mount_point, path)
        ELSE [tag |-> "Ok", path |-> Join(mounts[mi].mount_point, path)]

\* The loop of Manager::new from controller i on: `?` returns the first Err,
\* a panic ends the process, and only a full map makes a Manager.
RECURSIVE NewFrom(_, _, _)
NewFrom(path, i, subsystems) ==
    IF i > NumControllers
    THEN [status |-> "ok", subsystems |-> subsystems, error |-> "none"]
    ELSE LET r == get_subsystem_path(path, CONTROLLERS[i])
         IN  IF r.tag = "Ok"
             THEN NewFrom(path, i + 1, (CONTROLLERS[i] :> r.path) @@ subsystems)
             ELSE IF r.tag = "Err"
             THEN [status |-> "err", subsystems |-> <<>>, error |-> r.err]
             ELSE [status |-> "panic", subsystems |-> <<>>, error |-> r.at]

\* Manager::new(cgroup_path)
ManagerNew(path) == NewFrom(path, 1, <<>>)

\* The order in which a HashMap<String, PathBuf> built by Manager::new hands
\* out its nine entries. It is fixed for one map and differs from map to map
\* (RandomState); seed 0 gives the declaration order of CONTROLLERS, the
\* other seeds of 0..MaxSeed give other permutations of it.
HashOrder(seed) ==
    LET mult == <<1, 2, 4, 5, 7, 8>>[(seed % 6) + 1]
    IN  [i \in 1..NumControllers |->
            CONTROLLERS[((mult * (i - 1) + seed) % NumControllers) + 1]]

-----------------------------------------------------------------------------
(* The host: mount tables and membership listings *)

CgroupRoot == <<"sys", "fs", "cgroup">>

\* One cgroup hierarchy per controller.
SeparateLayout ==
    [i \in 1..NumControllers |->
        [leaf |-> CONTROLLERS[i], controllers |-> {CONTROLLERS[i]}]]

\* cpu with cpuacct and net_cls with net_prio share a hierarchy.
CoMountedLayout ==
    << [leaf |-> "cpu,cpuacct", controllers |-> {"cpu", "cpuacct"}],
       [leaf |-> "cpuset", controllers |-> {"cpuset"}],
       [leaf |-> "devices", controllers |-> {"devices"}],
       [leaf |-> "hugetlb", controllers |-> {"hugetlb"}],
       [leaf |-> "memory", controllers |-> {"memory"}],
       [leaf |-> "pids", controllers |-> {"pids"}],
       [leaf |-> "blkio", controllers |-> {"blkio"}],
       [leaf |-> "net_prio,net_cls", controllers |-> {"net_cls", "net_prio"}] >>

Layouts == {SeparateLayout, CoMountedLayout}

NoneOr(S) == S \cup {"none"}

\* The mount table of a host with the given hierarchies, without the one of
\* controller `missing`, behind the usual non-cgroup mounts and, when asked
\* for, a tmpfs mounted on a directory named like controller `decoy`.
HostMounts(layout, missing, decoy) ==
    LET Kept(h) == missing \notin h.controllers
        kept == SelectSeq(layout, Kept)
        cg == [i \in 1..Len(kept) |->
                  [fs_type |-> "cgroup",
                   mount_point |-> AbsPath(Append(CgroupRoot, kept[i].leaf))]]
        sys == << [fs_type |-> "proc", mount_point |-> AbsPath(<<"proc">>)],
                  [fs_type |-> "tmpfs", mount_point |-> AbsPath(CgroupRoot)] >>
        extra == IF decoy = "none" THEN <<>>
                 ELSE << [fs_type |-> "tmpfs",
                          mount_point |-> AbsPath(<<"mnt", decoy>>)] >>
    IN  extra \o sys \o cg

\* /proc/self/cgroup of the calling process: one line per hierarchy, each
\* with the process's placement in it (memPlace in the memory hierarchy,
\* place in the others); the line of controller `missing` is left out.
HostCgroups(layout, place, memPlace, missing) ==
    LET Kept(h) == missing \notin h.controllers
        kept == SelectSeq(layout, Kept)
    IN  [i \in 1..Len(kept) |->
            [controllers |-> kept[i].controllers,
             pathname |-> IF "memory" \in kept[i].controllers
                          THEN memPlace ELSE place]]

Placements == {AbsPath(<<>>), AbsPath(<<"a">>)}

SeqsUpTo(S, n) == UNION {[1..k -> S] : k \in 0..n}

\* The cgroup paths a caller may request: "", "/", and absolute and relative
\* paths of up to MaxPathLen components, ".." among them.
RequestedPaths ==
    {[abs |-> a, comps |-> c] : a \in BOOLEAN, c \in SeqsUpTo({"a", ".."}, MaxPathLen)}

\* Mount records of the mount-resolution specification.
MountLeaves ==
    {"cpu", "cpu,cpuacct", "net_cls", "net_prio", "net_cls,net_prio",
     "net_prio,net_cls", "memory"}

MountRecords ==
    {[fs_type |-> t, mount_point |-> AbsPath(<<d, l>>)] :
        t \in {"cgroup", "tmpfs"}, d \in {"cg", "mnt"}, l \in MountLeaves}

-----------------------------------------------------------------------------
(* State of the calls *)

NoLookup == [fn |-> "none", subsystem |-> "none", index |-> 0, map |-> <<>>]

NoManager == [status |-> "none", subsystems |-> <<>>, error |-> "none"]

ApIdle == [pc |-> "idle", i |-> 0, pid |-> 0, result |-> "none"]

RmIdle ==
    [pc |-> "idle", i |-> 0, snapshot |-> <<>>, k |-> 0, attempts |-> 0,
     existed |-> {}, result |-> "none"]

NoCalls ==
    /\ manager = NoManager
    /\ order = <<>>
    /\ dirs = {}
    /\ procs = {}
    /\ pstate = [p \in 1..MaxPids |-> "unborn"]
    /\ ap = ApIdle
    /\ calls = <<>>
    /\ rm = RmIdle
    /\ reads = {}
    /\ sigs = {}
    /\ dels = {}

-----------------------------------------------------------------------------
(* Mount resolution on arbitrary small mount tables *)

InitMount ==
    /\ mounts \in SeqsUpTo(MountRecords, MaxMounts)
    /\ cgroups = <<>>
    /\ cgroup_path = RelPath(<<>>)
    /\ lookup = NoLookup
    /\ NoCalls

\* Manager::get_subsystem_path up to the first unwrap()
ManagerResolveMount ==
    /\ lookup = NoLookup
    /\ \E s \in Subsystems :
           lookup' = [fn |-> "get_subsystem_path", subsystem |-> s,
                      index |-> FindMount(s), map |-> <<>>]
    /\ UNCHANGED <<mounts, cgroups, cgroup_path, manager, order, dirs, procs,
                   pstate, ap, calls, rm, reads, sigs, dels>>

UtilResolveMount ==
    /\ lookup = NoLookup
    /\ \E s \in Subsystems :
           lookup' = [fn |-> "get_subsystem_mount_points", subsystem |-> s,
                      index |-> get_subsystem_mount_points(s).index,
                      map |-> <<>>]
    /\ UNCHANGED <<mounts, cgroups, cgroup_path, manager, order, dirs, procs,
                   pstate, ap, calls, rm, reads, sigs, dels>>

UtilListMountPoints ==
    /\ lookup = NoLookup
    /\ lookup' = [fn |-> "list_subsystem_mount_points", subsystem |-> "none",
                  index |-> 0, map |-> list_subsystem_mount_points]
    /\ UNCHANGED <<mounts, cgroups, cgroup_path, manager, order, dirs, procs,
                   pstate, ap, calls, rm, reads, sigs, dels>>

NextMount == ManagerResolveMount \/ UtilResolveMount \/ UtilListMountPoints

SpecMount == InitMount /\ [][NextMount]_vars

-----------------------------------------------------------------------------
(* Manager::new on the hosts described above *)

InitNew ==
    /\ \E layout \in Layouts, missing \in NoneOr(Subsystems),
          decoy \in {"none", "memory", "cpu"} :
           mounts = HostMounts(layout, missing, decoy)
    /\ \E layout \in Layouts, place \in Placements, memPlace \in Placements,
          missing \in {"none", "cpu", "pids"} :
           cgroups = HostCgroups(layout, place, memPlace, missing)
    /\ cgroup_path \in RequestedPaths
    /\ lookup = NoLookup
    /\ NoCalls

New ==
    /\ manager.status = "none"
    /\ manager' = ManagerNew(cgroup_path)
    /\ \E seed \in 0..MaxSeed :
           order' = IF manager'.status = "ok" THEN HashOrder(seed) ELSE <<>>
    /\ UNCHANGED <<mounts, cgroups, cgroup_path, lookup, dirs, procs, pstate,
                   ap, calls, rm, reads, sigs, dels>>

SpecNew == InitNew /\ [][New]_vars

-----------------------------------------------------------------------------
(* Processes and the cgroup filesystem *)

Pids == 1..MaxPids

\* The container's init process, the pid handed to apply.
InitPid == 1

Alive == {p \in Pids : pstate[p] = "running"}

Members(path) == {p \in Pids : <<path, p>> \in procs}

\* The lines of a membership file, in the order the kernel lists them.
RECURSIVE SortedPids(_)
SortedPids(S) ==
    IF S = {} THEN <<>>
    ELSE LET least == CHOOSE p \in S : \A q \in S : p <= q
         IN  <<least>> \o SortedPids(S \ {least})

\* Number of attempts delete_with_retry (crate::utils) makes before it gives up.
RetryBudget == 3

\* Controller::apply of one controller (cpu.rs, memory.rs, ...): on success
\* the directory exists and pid is a member of it; a failure may come before
\* or after the directory was made. A pid that is not running cannot be added.
ControllerApply(path, pid) ==
    {[result |-> "ok", dirs |-> dirs \cup {path},
      procs |-> procs \cup {<<path, pid>>}] : x \in {p \in {pid} : p \in Alive}}
    \cup
    {[result |-> "ControllerApplyFailed", dirs |-> d, procs |-> procs] :
        d \in {dirs, dirs \cup {path}}}

\* A process leaves: the kernel drops it from every membership file.
ProcExit ==
    /\ manager.status = "ok"
    /\ \E p \in Alive :
        /\ pstate' = [pstate EXCEPT ![p] = "dead"]
        /\ procs' = {m \in procs : m[2] # p}
    /\ UNCHANGED <<mounts, cgroups, cgroup_path, lookup, manager, order, dirs,
                   ap, calls, rm, reads, sigs, dels>>

\* A process that is in the container's cgroups forks: the child starts in its
\* parent's cgroups.
Fork ==
    /\ manager.status = "ok"
    /\ \E parent \in Alive, child \in Pids :
        /\ \E m \in procs : m[2] = parent
        /\ pstate[child] = "unborn"
        /\ pstate' = [pstate EXCEPT ![child] = "running"]
        /\ procs' = procs \cup {<<m[1], child>> : m \in {x \in procs : x[2] = parent}}
    /\ UNCHANGED <<mounts, cgroups, cgroup_path, lookup, manager, order, dirs,
                   ap, calls, rm, reads, sigs, dels>>

-----------------------------------------------------------------------------
(* Manager::apply *)

\* apply with the controller's error dropped instead of returned.
AfterDispatchIgnoreErr(result) == "next"

\* `?` on the controller's result: an Err returns from apply at once.
AfterDispatch(result) == IF result = "ok" THEN "next" ELSE "return"

\* A caller invokes apply(linux_resources, pid).
Apply ==
    /\ manager.status = "ok"
    /\ ap.pc # "run"
    /\ rm.pc \in {"idle", "done"}
    /\ ap' = [pc |-> "run", i |-> 1, pid |-> InitPid, result |-> "none"]
    /\ calls' = <<>>
    /\ rm' = RmIdle
    /\ reads' = {}
    /\ sigs' = {}
    /\ dels' = {}
    /\ UNCHANGED <<mounts, cgroups, cgroup_path, lookup, manager, order, dirs,
                   procs, pstate>>

\* One turn of the loop of apply: the next entry of the map is dispatched
\* to its controller.
ApplyStep ==
    /\ ap.pc = "run"
    /\ LET ctl == order[ap.i]
           path == manager.subsystems[ctl]
       IN  \E out \in ControllerApply(path, ap.pid) :
            /\ dirs' = out.dirs
            /\ procs' = out.procs
            /\ calls' = Append(calls, [ctl |-> ctl, path |-> path,
                                       result |-> out.result])
            /\ ap' = IF AfterDispatch(out.result) = "return"
                     THEN [ap EXCEPT !.pc = "done", !.result = out.result]
                     ELSE IF ap.i = NumControllers
                     THEN [ap EXCEPT !.pc = "done", !.result = "ok"]
                     ELSE [ap EXCEPT !.i = ap.i + 1]
    /\ UNCHANGED <<mounts, cgroups, cgroup_path, lookup, manager, order,
                   pstate, rm, reads, sigs, dels>>

-----------------------------------------------------------------------------
(* Manager::remove *)

\* remove without the exists() test.
PathExistsUnchecked(path) == TRUE

\* cgroup_path.1.exists()
PathExists(path) == path \in dirs

\* kill's result returned with `?` instead of dropped.
AfterSignalPropagate(ok) == IF ok THEN "next" ELSE "return"

\* let _ = kill(..): the result of the signal is dropped.
AfterSignal(ok) == "next"

\* delete_with_retry's error dropped instead of returned.
AfterDeleteIgnoreErr(ok) == "next"

\* `?` on delete_with_retry: an Err returns from remove at once.
AfterDelete(ok) == IF ok THEN "next" ELSE "return"

\* The loop of remove moves to the next entry of the map, or returns Ok(()).
Advance ==
    IF rm.i = NumControllers
    THEN [rm EXCEPT !.pc = "done", !.result = "ok"]
    ELSE [rm EXCEPT !.pc = "check", !.i = rm.i + 1, !.snapshot = <<>>,
                    !.k = 0]

\* A caller invokes remove().
Remove ==
    /\ manager.status = "ok"
    /\ ap.pc # "run"
    /\ rm.pc \in {"idle", "done"}
    /\ rm' = [pc |-> "check", i |-> 1, snapshot |-> <<>>, k |-> 0,
              attempts |-> 0,
              existed |-> {manager.subsystems[s] : s \in Subsystems} \cap dirs,
              result |-> "none"]
    /\ reads' = {}
    /\ sigs' = {}
    /\ dels' = {}
    /\ UNCHANGED <<mounts, cgroups, cgroup_path, lookup, manager, order, dirs,
                   procs, pstate, ap, calls>>

\* exists() and the read of the membership file.
RemoveCheck ==
    /\ rm.pc = "check"
    /\ LET ctl == order[rm.i]
           path == manager.subsystems[ctl]
           lines == SortedPids(Members(path))
       IN  IF ~PathExists(path)
           THEN /\ rm' = Advance
                /\ reads' = reads
           ELSE /\ reads' = reads \cup {ctl}
                /\ rm' = IF path \notin dirs
                         THEN [rm EXCEPT !.pc = "done",
                                         !.result = "MembershipReadFailed"]
                         ELSE [rm EXCEPT !.pc = IF lines = <<>> THEN "delete"
                                                ELSE "kill",
                                         !.snapshot = lines, !.k = 1]
    /\ UNCHANGED <<mounts, cgroups, cgroup_path, lookup, manager, order, dirs,
                   procs, pstate, ap, calls, sigs, dels>>

\* One turn of the loop over the lines: SIGKILL to the pid of the line.
RemoveKill ==
    /\ rm.pc = "kill"
    /\ LET ctl == order[rm.i]
           pid == rm.snapshot[rm.k]
           ok == pid \in Alive
       IN  /\ sigs' = sigs \cup {[ctl |-> ctl, pid |-> pid, ok |-> ok]}
           /\ pstate' = IF ok THEN [pstate EXCEPT ![pid] = "dead"] ELSE pstate
           /\ procs' = {m \in procs : m[2] # pid}
           /\ rm' = IF AfterSignal(ok) = "return"
                    THEN [rm EXCEPT !.pc = "done", !.result = "SignalFailed"]
                    ELSE IF rm.k = Len(rm.snapshot)
                    THEN [rm EXCEPT !.pc = "delete"]
                    ELSE [rm EXCEPT !.k = rm.k + 1]
    /\ UNCHANGED <<mounts, cgroups, cgroup_path, lookup, manager, order, dirs,
                   ap, calls, reads, dels>>

\* One attempt of delete_with_retry: remove_dir fails while the directory has
\* members or the kernel still holds it busy; after RetryBudget failures the
\* call gives up with RemovalTimeout. rm.attempts counts the attempts of the
\* latest delete_with_retry call.
RemoveDelete ==
    /\ rm.pc = "delete"
    /\ LET ctl == order[rm.i]
           path == manager.subsystems[ctl]
           n == IF ctl \in dels THEN rm.attempts + 1 ELSE 1
       IN  \E busy \in BOOLEAN :
            LET ok == ~busy /\ path \in dirs /\ Members(path) = {}
            IN  /\ dels' = dels \cup {ctl}
                /\ dirs' = IF ok THEN dirs \ {path} ELSE dirs
                /\ rm' = IF ok THEN [Advance EXCEPT !.attempts = n]
                         ELSE IF n < RetryBudget
                         THEN [rm EXCEPT !.attempts = n]
                         ELSE IF AfterDelete(ok) = "return"
                         THEN [rm EXCEPT !.pc = "done", !.attempts = n,
                                         !.result = "RemovalTimeout"]
                         ELSE [Advance EXCEPT !.attempts = n]
    /\ UNCHANGED <<mounts, cgroups, cgroup_path, lookup, manager, order, procs,
                   pstate, ap, calls, reads, sigs>>

-----------------------------------------------------------------------------
(* The life of one container's cgroups *)

\* The hosts and requests of the lifecycle: an absolute request on a host
\* with one hierarchy per controller, a relative one on a host that co-mounts
\* controllers (net_prio and net_cls then share one directory).
LifecycleHosts ==
    {[layout |-> SeparateLayout, path |-> AbsPath(<<"youki">>)],
     [layout |-> CoMountedLayout, path |-> RelPath(<<"youki", "c1">>)]}

Init ==
    /\ \E h \in LifecycleHosts :
        /\ mounts = HostMounts(h.layout, "none", "none")
        /\ cgroups = HostCgroups(h.layout, AbsPath(<<>>), AbsPath(<<>>), "none")
        /\ cgroup_path = h.path
    /\ lookup = NoLookup
    /\ manager = NoManager
    /\ order = <<>>
    /\ dirs = {}
    /\ procs = {}
    /\ pstate = [p \in Pids |-> IF p = InitPid THEN "running" ELSE "unborn"]
    /\ ap = ApIdle
    /\ calls = <<>>
    /\ rm = RmIdle
    /\ reads = {}
    /\ sigs = {}
    /\ dels = {}

Next ==
    \/ New
    \/ Apply
    \/ ApplyStep
    \/ Remove
    \/ RemoveCheck
    \/ RemoveKill
    \/ RemoveDelete
    \/ ProcExit
    \/ Fork

Spec == Init /\ [][Next]_vars

-----------------------------------------------------------------------------
(* Properties *)

\* Last component of a mount record's mount point.
Leaf(m) == m.mount_point.comps[Len(m.mount_point.comps)]

\* Position of a controller in the iteration order of the map.
PosOf(s) == CHOOSE i \in 1..NumControllers : order[i] = s

Resolvers == {"get_subsystem_path", "get_subsystem_mount_points"}

NetNames == {"net_cls,net_prio", "net_prio,net_cls", "net_cls", "net_prio"}

CpuNames == {"cpu,cpuacct", "cpu"}

\* Record i is a cgroup record with one of the given leaves, and no other
\* record of the table carries one of the names.
SoleEntry(i, leaves, names) ==
    /\ mounts[i].fs_type = "cgroup"
    /\ Leaf(mounts[i]) \in leaves
    /\ \A j \in 1..Len(mounts) : j # i => Leaf(mounts[j]) \notin names

\* C1: for every mount table and every requested path, the path Manager::new
\* stores for a controller is, once its ".." segments are resolved, the
\* controller's mount point or a path below it. (Fails: a relative request is
\* joined with PathBuf::join, which keeps ".." segments.)
C1_EscapeProof ==
    manager.status = "ok" =>
        \A s \in Subsystems :
            Within(manager.subsystems[s], mounts[FindMount(s)].mount_point)

\* C2: the stored path of every controller is: for the empty request, the
\* mount point followed by the process's own placement in that controller's
\* hierarchy; for an absolute request, the mount point followed by the
\* request's components; for a relative request, the mount point followed by
\* the request's components, whatever the own placement; and construction
\* returns an error only for an empty or absolute request that would leave
\* the mount point.
C2_ThreeCases ==
    /\ manager.status = "ok" =>
        \A s \in Subsystems :
            LET mp == mounts[FindMount(s)].mount_point
                own == cgroups[FindCgroup(s)].pathname
                got == manager.subsystems[s]
            IN  /\ got.abs
                /\ SubSeq(got.comps, 1, Len(mp.comps)) = mp.comps
                /\ SubSeq(got.comps, Len(mp.comps) + 1, Len(got.comps)) =
                      IF cgroup_path.comps = <<>> /\ ~cgroup_path.abs
                      THEN own.comps
                      ELSE cgroup_path.comps
    /\ manager.status = "err" =>
        /\ manager.error = "PathEscape"
        /\ cgroup_path.abs \/ cgroup_path.comps = <<>>

\* C2 witness: a relative request resolved for a process placed at /a: the
\* memory path is <mount point>/a/.., not <mount point>/a/a/...
C2_Witness ==
    /\ manager.status = "ok"
    /\ cgroup_path = RelPath(<<"a">>)
    /\ cgroups[FindCgroup("memory")].pathname = AbsPath(<<"a">>)
    /\ manager.subsystems["memory"] = AbsPath(CgroupRoot \o <<"memory", "a">>)

\* C3: Manager::new ends either with a Manager holding one entry for each of
\* the nine controllers or with a recoverable error returned to the caller;
\* a missing mount record or membership entry gives MountNotFound or
\* MembershipNotFound, never an abort. (Fails: unwrap() panics.)
C3_AllOrNothing ==
    manager.status # "none" =>
        \/ /\ manager.status = "ok"
           /\ DOMAIN manager.subsystems = Subsystems
        \/ /\ manager.status = "err"
           /\ manager.subsystems = <<>>
           /\ manager.error \in {"MountNotFound", "MembershipNotFound", "PathEscape"}

\* C4: in a mount table whose only record named after net_cls/net_prio is a
\* cgroup record ending in "net_cls,net_prio" or "net_prio,net_cls", both
\* resolvers find that record for net_cls and for net_prio; in a table whose
\* only record named after cpu is a cgroup record ending in "cpu,cpuacct" or
\* "cpu", both resolvers find that record for cpu.
C4_CoMounted ==
    \A i \in 1..Len(mounts) :
        /\ ( /\ SoleEntry(i, {"net_cls,net_prio", "net_prio,net_cls"}, NetNames)
             /\ lookup.fn \in Resolvers
             /\ lookup.subsystem \in {"net_cls", "net_prio"} )
           => lookup.index = i
        /\ ( /\ SoleEntry(i, CpuNames, CpuNames)
             /\ lookup.fn \in Resolvers
             /\ lookup.subsystem = "cpu" )
           => lookup.index = i
        /\ ( /\ SoleEntry(i, {"net_cls,net_prio", "net_prio,net_cls"}, NetNames)
             /\ lookup.fn = "list_subsystem_mount_points" )
           => /\ {"net_cls", "net_prio"} \subseteq DOMAIN lookup.map
              /\ lookup.map["net_cls"] = mounts[i].mount_point
              /\ lookup.map["net_prio"] = mounts[i].mount_point

\* C4 witness: net_prio resolved by Manager::get_subsystem_path to a record
\* ending in "net_cls,net_prio" that is the second of its table.
C4_Witness ==
    /\ lookup.fn = "get_subsystem_path"
    /\ lookup.subsystem = "net_prio"
    /\ lookup.index = 2
    /\ Leaf(mounts[2]) = "net_cls,net_prio"
    /\ SoleEntry(2, {"net_cls,net_prio"}, NetNames)

\* C5: the record either resolver returns has fs_type "cgroup". (Fails: a
\* record of another kind falls through to the plain ends_with test.)
C5_OnlyCgroupRecords ==
    (lookup.fn \in Resolvers /\ lookup.index # 0) =>
        mounts[lookup.index].fs_type = "cgroup"

\* C6: at most the last controller apply dispatched failed, and then apply
\* has returned its error; apply returns success only after nine successful
\* dispatches; when apply has returned an error, the directories of the
\* controllers applied before the failure still exist, with the pid in them
\* while it runs.
C6_FailFastNoRollback ==
    /\ \A k \in 1..Len(calls) :
           calls[k].result # "ok" =>
               /\ k = Len(calls)
               /\ ap.pc = "done"
               /\ ap.result = calls[k].result
    /\ (ap.pc = "done" /\ ap.result = "ok") =>
           /\ Len(calls) = NumControllers
           /\ \A k \in 1..Len(calls) : calls[k].result = "ok"
    /\ (ap.pc = "done" /\ ap.result # "ok" /\ rm.pc = "idle") =>
           \A k \in 1..(Len(calls) - 1) :
               /\ calls[k].path \in dirs
               /\ ap.pid \in Alive => <<calls[k].path, ap.pid>> \in procs

\* C6 witness: apply returned an error at its third dispatch, the second
\* controller's directory is still there.
C6_Witness ==
    /\ ap.pc = "done"
    /\ ap.result = "ControllerApplyFailed"
    /\ Len(calls) = 3
    /\ calls[2].path \in dirs
    /\ <<calls[2].path, ap.pid>> \in procs

\* C7: apply dispatches the controllers in the declaration order of
\* CONTROLLERS. (Fails: the map is a HashMap.)
C7_DeclarationOrder ==
    \A a, b \in 1..Len(calls) :
        a < b => IndexOf(calls[a].ctl) < IndexOf(calls[b].ctl)

\* C8: a controller whose directory did not exist when remove was called is
\* skipped: its membership file is not read, nothing is signalled and no
\* delete is attempted for it, and its absence is no error; when no directory
\* existed remove returns Ok(()) having done none of these.
C8_MissingDirsSkipped ==
    rm.pc # "idle" =>
        /\ \A s \in Subsystems :
               manager.subsystems[s] \notin rm.existed =>
                   /\ s \notin reads
                   /\ s \notin dels
                   /\ \A g \in sigs : g.ctl # s
        /\ rm.result # "MembershipReadFailed"
        /\ (rm.pc = "done" /\ rm.existed = {}) =>
               /\ rm.result = "ok"
               /\ reads = {}
               /\ sigs = {}
               /\ dels = {}

\* C8 witness: remove returned Ok(()) after an apply that failed partway:
\* some directories were missing and skipped, the others deleted.
C8_Witness ==
    /\ rm.pc = "done"
    /\ rm.result = "ok"
    /\ dels # {}
    /\ \E s \in Subsystems :
           manager.subsystems[s] \notin rm.existed /\ s \notin reads

\* C9: delete_with_retry makes at most RetryBudget attempts; remove moves past
\* a controller it tried to delete only when the directory is gone; and
\* remove returns RemovalTimeout exactly when the budget ran out, without
\* reading, signalling or deleting for any controller after that one.
C9_BoundedRetry ==
    /\ rm.attempts <= RetryBudget
    /\ \A s \in dels :
           (PosOf(s) < rm.i \/ (rm.pc = "done" /\ rm.result = "ok")) =>
               manager.subsystems[s] \notin dirs
    /\ rm.result = "RemovalTimeout" =>
           /\ rm.pc = "done"
           /\ rm.attempts = RetryBudget
           /\ order[rm.i] \in dels
           /\ \A j \in (rm.i + 1)..NumControllers :
                  /\ order[j] \notin reads
                  /\ order[j] \notin dels
                  /\ \A g \in sigs : g.ctl # order[j]

\* C9 witness: a directory that was busy for RetryBudget - 1 attempts was
\* deleted by the last attempt and remove went on to the next controller.
C9_Witness ==
    /\ rm.pc = "check"
    /\ rm.i > 1
    /\ rm.attempts = RetryBudget
    /\ order[rm.i - 1] \in dels
    /\ manager.subsystems[order[rm.i - 1]] \notin dirs

\* C10: remove never returns an error for a failed signal; every pid of the
\* membership file read has been signalled before the first delete attempt;
\* and a controller for which a signal failed still had its delete attempted.
C10_SignalFailureNotFatal ==
    /\ rm.result # "SignalFailed"
    /\ rm.pc = "delete" =>
           \A k \in 1..Len(rm.snapshot) :
               \E g \in sigs : g.ctl = order[rm.i] /\ g.pid = rm.snapshot[k]
    /\ rm.pc = "kill" => order[rm.i] \notin dels
    /\ \A g \in sigs :
           (~g.ok /\ (PosOf(g.ctl) < rm.i \/ (rm.pc = "done" /\ rm.result = "ok")))
               => (g.ctl \in dels /\ manager.subsystems[g.ctl] \notin dirs)

\* C10 witness: remove returned Ok(()) although the first listed pid was gone
\* when signalled; the second was signalled and the directory deleted.
C10_Witness ==
    /\ rm.pc = "done"
    /\ rm.result = "ok"
    /\ \E g, h \in sigs :
           /\ g.ctl = h.ctl
           /\ g.pid < h.pid
           /\ ~g.ok
           /\ h.ok
           /\ g.ctl \in dels
           /\ manager.subsystems[g.ctl] \notin dirs

====
